---------------------------- MODULE Spec2Model ----------------------------
(***************************************************************************)
(* A model of looptime's LoopTimeEventLoop (src/looptime/loops.py): the    *)
(* virtual clock kept in integer ticks, setup_looptime(), the replaced     *)
(* selector call (one call per cycle of the event loop), the step          *)
(* synchroniser and the end-of-time / idle-timeout enforcement.            *)
(*                                                                         *)
(* Seconds (Python floats) are modelled as exact rationals: an integer     *)
(* number of quanta, Q quanta to the second.  Binary floating-point error  *)
(* is therefore outside the model; the rounding done by round() is inside. *)
(* Ticks (the internal integer form) are plain integers.  An optional      *)
(* value (Python's None) is the empty sequence, a present value x is <<x>>.*)
(*                                                                         *)
(* The host scheduler (asyncio's BaseEventLoop._run_once, tasks, futures   *)
(* and timer handles) is the environment of the code: it is modelled as    *)
(* far as the replaced selector reads it (asyncio.all_tasks(), a task's    *)
(* _fut_waiter) and as far as it produces the timeout of each cycle.       *)
(***************************************************************************)
EXTENDS Integers, Sequences, FiniteSets, TLC

\* ------------------------------------------------------------------ bounds

\* Quanta per tick at the finest resolution of the model.
Sub == 2
\* The largest noop_cycles option.
MaxNoop == 1
\* Task slots of the host scheduler.
MaxTasks == 1
\* Executor (delegated) futures that may be registered at a time.
MaxExec == 1
\* The largest time, in seconds, that options and deadlines may name.
MaxSec == 2
\* Scoped activations (looptime_enabled) that may be open at a time.
MaxScopes == 1
\* Scopes of one looptime.enabled object that may be open at a time.
MaxNest == 3

\* Quanta per second: the resolutions of the model are 1 s and 1/2 s.
Q == 2 * Sub

\* ---------------------------------------------------------- optional values

None == << >>

Some(x) == << x >>

IsNone(x) == x = << >>

Get(x) == x[1]

Min(a, b) == IF a <= b THEN a ELSE b

Max(a, b) == IF a >= b THEN a ELSE b

\* ------------------------------------------------------------- conversions

\* Python's round(a / b) for b > 0: to the nearest integer, ties to even.
RoundDiv(a, b) ==
    LET q == a \div b
        r == a % b
    IN  IF 2 * r < b THEN q
        ELSE IF 2 * r > b THEN q + 1
        ELSE IF q % 2 = 0 THEN q ELSE q + 1

\* round(1 / resolution), the resolution given in quanta.
Reciprocal(resolution) == RoundDiv(Q, resolution)

\* __time2int with the reciprocal rr: seconds (quanta, optional) to ticks.
Time2Int(rr, time) ==
    IF IsNone(time) THEN None ELSE Some(RoundDiv(Get(time) * rr, Q))

\* __int2time with the reciprocal rr: ticks (optional) to seconds (quanta).
Int2Time(rr, time) ==
    IF IsNone(time) THEN None ELSE Some((Get(time) * Q) \div rr)

\* Python's `a or b` on optional numbers: a unless it is None or zero.
Or(a, b) == IF IsNone(a) \/ Get(a) = 0 THEN b ELSE a


\* ----------------------------------------------------------------- options

\* The options are seconds in quanta: whole ticks, and fractions of a tick
\* that round() takes down, up and to even.
StartOptions == {None} \cup {Some(t) : t \in {0, Q - 1, Q}}

EndOptions == {None} \cup {Some(t) : t \in {Q \div 2, Q}}

ResolutionOptions == {Q, Q \div 2}

IdleStepOptions == {None} \cup {Some(t) : t \in {1, Q}}

\* The delays of the operations: None is an indefinite wait.
DelayOptions == {None} \cup {Some(t) : t \in {0, 1, Q - 1, Q, MaxSec * Q}}

\* Code overhead between two synchronisations, as the real clock measures it.
Overheads == {0, 1}

IdleTimeoutOptions == {None} \cup {Some(t) : t \in {1, Q \div 2, Q}}

NoopOptions == 0 .. MaxNoop

EnabledOptions == {None, Some(TRUE), Some(FALSE)}

\* The keyword arguments of setup_looptime().
SetupArgs ==
    [start : StartOptions, end : EndOptions, resolution : ResolutionOptions,
     idle_step : IdleStepOptions, idle_timeout : IdleTimeoutOptions,
     noop_cycles : NoopOptions, enabled : EnabledOptions]

\* setup_looptime() with no argument: the defaults of its signature, with
\* the finest resolution and the longest throttle run of the model for
\* 1e-6 and 42.
Defaults ==
    [start |-> None, end |-> None, resolution |-> Q \div 2, idle_step |-> None,
     idle_timeout |-> None, noop_cycles |-> MaxNoop, enabled |-> None]

\* The options that a call with the arguments a names: those that are not
\* at their defaults (a default that is named makes the same call).
GivenNames(a) == {k \in DOMAIN a : a[k] # Defaults[k]}

\* -------------------------------------------------------------------- state

VARIABLES
    resolution_reciprocal,  \* __resolution_reciprocal: ticks per second
    now,                    \* __now, ticks
    end,                    \* __end, optional ticks
    idle_timeout,           \* __idle_timeout, optional ticks
    idle_step,              \* __idle_step, optional ticks
    idle_end,               \* __idle_end, optional ticks
    noop_limit,             \* __noop_limit, optional count
    noop_cycle,             \* __noop_cycle, optional count
    noop_cycles,            \* __noop_cycles
    enabled,                \* __enabled
    sync_futures,           \* __sync_futures: the registered futures not done
    sync_ts,                \* __sync_ts is set (TRUE) or None (FALSE)
    selector,               \* _selector.select and __original_select
    scopes,                 \* old_enabled of the open looptime_enabled() scopes
    tasks,                  \* the host's tasks, by slot
    last,                   \* what the last operation did, as a caller sees it
    end_fired,              \* history: in how many cycles since the last
                            \* setup_looptime() the end-of-time enforcement
                            \* failed a waiting task: "no", "once" or "again"
    class_cache,            \* patchers._class_cache: original class name to
                            \* the class made for it
    made,                   \* the last call of the patchers module: its
                            \* arguments and the class it returned
    item,                   \* the pytest session: the looptime flag of the
                            \* command line, the markers of the test at hand
                            \* and how far the test has come
    converted,              \* the last conversion of a time to ticks and
                            \* back: its inputs and what came out
    enabler                 \* one looptime.enabled object: the manager that
                            \* its _mgr names, the flag before each of its
                            \* open scopes, and the managers it left behind

clock == <<resolution_reciprocal, now, end, idle_timeout, idle_step, idle_end,
           noop_limit, noop_cycle, noop_cycles, enabled, sync_futures, sync_ts,
           selector>>

vars == <<resolution_reciprocal, now, end, idle_timeout, idle_step, idle_end,
          noop_limit, noop_cycle, noop_cycles, enabled, sync_futures, sync_ts,
          selector, scopes, tasks, last, end_fired, class_cache, made, item,
          converted, enabler>>

\* What lives outside the loop object: the module state of the patchers,
\* the pytest session and the enabler object.
outside == <<class_cache, made, item, converted, enabler>>

\* A looptime.enabled object as constructed: _mgr is None, no scope of it
\* is open, and it has left no manager behind.
\*   mgr     : "none" for None, else the state of the generator of the
\*             looptime_enabled() manager that _mgr names: "suspended" at its
\*             yield, "closed" once it raised
\*   open    : the flag of the loop just before each entry that succeeded
\*             and has not exited
\*   orphans : the managers suspended at their yield that _mgr names no
\*             more and that are not finalized yet
NoEnabler == [mgr |-> "none", open |-> << >>, orphans |-> 0]

\* No conversion yet.
NoConversion ==
    [op |-> "", resolution |-> None, time |-> None, ticks |-> None,
     seconds |-> None, raised |-> ""]

\* No pytest session.
NoItem == [flag |-> None, markers |-> << >>, phase |-> "none"]

\* No call of the patchers module yet.
NoCall == [op |-> "", cls |-> None, prefix |-> None, result |-> None]

\* loop.time(), in quanta.
Time == Get(Int2Time(resolution_reciprocal, Some(now)))

\* The record of an operation: which one, the start, the _enabled
\* override and, unless it was rejected, the names of the options (given)
\* a setup call was given
\* and whether TimeWarning was an error for it, the warnings it emitted,
\* the exception it raised, and for a cycle its
\* branch, its overtime flag, the enforcement loops it entered, whether
\* it waited for real, whether it returned ready i/o, whether the first
\* poll of a split step found some, the timeout it was called with,
\* whether it was quiet (a positive timeout, nothing ready, no real wait and
\* the clock unmoved) and how many quiet cycles came one after another
\* right before it (counted up to MaxNoop + 1).
Last(op) ==
    [op |-> op, start |-> None, override |-> None, strict |-> FALSE,
     warned |-> 0, raised |-> "",
     branch |-> "", overtime |-> FALSE, fired |-> {}, waited |-> FALSE,
     ready |-> FALSE, early |-> FALSE, timeout |-> None,
     quiet |-> FALSE, run |-> 0, given |-> {}]

\* -------------------------------------------------------------- setup

\* The monotonicity check of setup_looptime: the time would move backwards.
MovesBackwards(old_time, new_time) ==
    /\ ~IsNone(old_time)
    /\ ~IsNone(new_time)
    /\ Get(new_time) < Get(old_time)

\* A mutant of SetupNow: the clock restarts at zero when no start is given.
SetupNow_restart(rr, old_time, new_time) ==
    Get(Or(Time2Int(rr, new_time), Some(0)))

\* __now as setup_looptime assigns it, under the new reciprocal rr.
SetupNow(rr, old_time, new_time) ==
    Get(Or(Time2Int(rr, Or(new_time, old_time)), Some(0)))

\* A mutant of SetupEnabled: without an override the flag is set to true.
SetupEnabled_default(old, override) ==
    IF ~IsNone(override) THEN Get(override) ELSE TRUE

\* __enabled as setup_looptime assigns it; old is None at the first setup.
SetupEnabled(old, override) ==
    IF ~IsNone(override) THEN Get(override)
    ELSE IF IsNone(old) THEN TRUE ELSE Get(old)

\* The fields setup_looptime assigns, old_time and old_enabled being None
\* at the first setup of a loop.
SetupFields(old_time, old_enabled, a) ==
    LET rr == Reciprocal(a.resolution)
    IN  [resolution_reciprocal |-> rr,
         now          |-> SetupNow(rr, old_time, a.start),
         end          |-> Time2Int(rr, a.end),
         idle_timeout |-> Time2Int(rr, a.idle_timeout),
         idle_step    |-> Time2Int(rr, a.idle_step),
         idle_end     |-> None,
         noop_limit   |-> None,
         noop_cycle   |-> None,
         noop_cycles  |-> a.noop_cycles,
         sync_futures |-> 0,
         sync_ts      |-> FALSE,
         enabled      |-> SetupEnabled(old_enabled, a.enabled)]

\* The selector of a loop that was never set up: the host's own select.
Unpatched == [select |-> "host", original |-> None]

\* A mutant of PatchSelector: every call captures and installs.
PatchSelector_again(sel) ==
    [select |-> "replaced", original |-> Some(sel.select)]

\* The end of setup_looptime: the selector's select is captured and replaced
\* if no original is held yet.
PatchSelector(sel) ==
    IF IsNone(sel.original)
    THEN [select |-> "replaced", original |-> Some(sel.select)]
    ELSE sel

\* The assignments of setup_looptime.
Assign(f) ==
    /\ resolution_reciprocal' = f.resolution_reciprocal
    /\ now' = f.now
    /\ end' = f.end
    /\ idle_timeout' = f.idle_timeout
    /\ idle_step' = f.idle_step
    /\ idle_end' = f.idle_end
    /\ noop_limit' = f.noop_limit
    /\ noop_cycle' = f.noop_cycle
    /\ noop_cycles' = f.noop_cycles
    /\ sync_futures' = f.sync_futures
    /\ sync_ts' = f.sync_ts
    /\ enabled' = f.enabled
    /\ selector' = PatchSelector(selector)

\* A free task slot.
NoTask ==
    [pc |-> "free", delay |-> None, when |-> None, res |-> "", cancel |-> FALSE]

\* The state after LoopTimeEventLoop.__init__ / patch_event_loop with the
\* options a: the first setup_looptime.
Constructed(a) ==
    LET f == SetupFields(None, None, a)
    IN  /\ resolution_reciprocal = f.resolution_reciprocal
        /\ now = f.now
        /\ end = f.end
        /\ idle_timeout = f.idle_timeout
        /\ idle_step = f.idle_step
        /\ idle_end = f.idle_end
        /\ noop_limit = f.noop_limit
        /\ noop_cycle = f.noop_cycle
        /\ noop_cycles = f.noop_cycles
        /\ sync_futures = f.sync_futures
        /\ sync_ts = f.sync_ts
        /\ enabled = f.enabled
        /\ selector = PatchSelector(Unpatched)
        /\ scopes = << >>
        /\ tasks = [i \in 1 .. MaxTasks |-> NoTask]
        /\ last = [Last("init") EXCEPT !.start = a.start, !.override = a.enabled]
        /\ end_fired = "no"
        /\ class_cache = << >>
        /\ made = NoCall
        /\ item = NoItem
        /\ converted = NoConversion
        /\ enabler = NoEnabler

\* A loop constructed with any of the options.
Init ==
    \E a \in SetupArgs : Constructed(a)

\* The options of the loops that are then reconfigured, scoped and fed I/O:
\* times that are whole seconds.
LoopArgs ==
    {a \in SetupArgs : /\ a.start \in {None, Some(Q)}
                       /\ a.idle_step \in {None, Some(Q)}
                       /\ a.idle_timeout \in {None, Some(Q)}
                       /\ a.enabled \in {None, Some(TRUE)}}

InitLoop ==
    \E a \in LoopArgs : Constructed(a)

\* The options of the loops whose infinite runs are examined: a start at
\* zero or at one second, an idle timeout of one second, and the longest
\* throttle run.
FairArgs ==
    {a \in SetupArgs : /\ a.start \in {None, Some(Q)}
                       /\ a.idle_timeout \in {None, Some(Q)}
                       /\ a.noop_cycles = MaxNoop
                       /\ a.enabled # None}

InitFair ==
    \E a \in FairArgs : Constructed(a)

\* A mutant of Setup: the warning is issued after the fields are assigned.
Setup_late(a, strict) ==
    LET old_time == Int2Time(resolution_reciprocal, Some(now))
        back     == MovesBackwards(old_time, a.start)
        call     == [Last("setup") EXCEPT !.start = a.start, !.strict = strict,
                                         !.override = a.enabled]
    IN  /\ Assign(SetupFields(old_time, Some(enabled), a))
        /\ last' = [call EXCEPT !.warned = IF back /\ ~strict THEN 1 ELSE 0,
                                !.raised = IF back /\ strict THEN "TimeWarning" ELSE "",
                                !.given = IF back /\ strict THEN {} ELSE GivenNames(a)]
        /\ end_fired' = "no"
        /\ UNCHANGED <<scopes, tasks, outside>>

\* A mutant of Setup: an end of time that is not given stays as it was.
Setup_keep(a, strict) ==
    LET old_time == Int2Time(resolution_reciprocal, Some(now))
        back     == MovesBackwards(old_time, a.start)
        call     == [Last("setup") EXCEPT !.start = a.start, !.strict = strict,
                                         !.override = a.enabled]
        f        == SetupFields(old_time, Some(enabled), a)
    IN  IF back /\ strict
        THEN /\ last' = [call EXCEPT !.raised = "TimeWarning"]
             /\ UNCHANGED <<clock, scopes, tasks, end_fired, outside>>
        ELSE /\ Assign([f EXCEPT !.end = IF IsNone(a.end) THEN end ELSE f.end])
             /\ last' = [call EXCEPT !.warned = IF back THEN 1 ELSE 0,
                                     !.given = GivenNames(a)]
             /\ end_fired' = "no"
             /\ UNCHANGED <<scopes, tasks, outside>>

\* setup_looptime(**a) on a loop that is set up already.  `strict` says that
\* the warnings filter turns TimeWarning into an error, which warnings.warn
\* then raises before any field is assigned.
Setup(a, strict) ==
    LET old_time == Int2Time(resolution_reciprocal, Some(now))
        back     == MovesBackwards(old_time, a.start)
        call     == [Last("setup") EXCEPT !.start = a.start, !.strict = strict,
                                         !.override = a.enabled]
    IN  IF back /\ strict
        THEN /\ last' = [call EXCEPT !.raised = "TimeWarning"]
             /\ UNCHANGED <<clock, scopes, tasks, end_fired, outside>>
        ELSE /\ Assign(SetupFields(old_time, Some(enabled), a))
             /\ last' = [call EXCEPT !.warned = IF back THEN 1 ELSE 0,
                                     !.given = GivenNames(a)]
             /\ end_fired' = "no"
             /\ UNCHANGED <<scopes, tasks, outside>>

\* ------------------------------------------------------ scoped activation

\* A mutant of EnterScope: a scope nests silently in an enabled loop.
EnterScope_nested ==
    /\ Len(scopes) < MaxScopes
    /\ scopes' = Append(scopes, enabled)
    /\ enabled' = TRUE
    /\ last' = Last("enter")
    /\ UNCHANGED <<resolution_reciprocal, now, end, idle_timeout,
                   idle_step, idle_end, noop_limit, noop_cycle,
                   noop_cycles, sync_futures, sync_ts, selector>>
    /\ UNCHANGED <<tasks, end_fired, outside>>

\* Entering `with loop.looptime_enabled()`: an error if enabled already.
EnterScope ==
    /\ Len(scopes) < MaxScopes \/ enabled
    /\ IF enabled
       THEN /\ last' = [Last("enter") EXCEPT !.raised = "RuntimeError"]
            /\ UNCHANGED <<clock, scopes>>
       ELSE /\ scopes' = Append(scopes, enabled)
            /\ enabled' = TRUE
            /\ last' = Last("enter")
            /\ UNCHANGED <<resolution_reciprocal, now, end, idle_timeout,
                           idle_step, idle_end, noop_limit, noop_cycle,
                           noop_cycles, sync_futures, sync_ts, selector>>
    /\ UNCHANGED <<tasks, end_fired, outside>>

\* A mutant of ExitScope: the scope is left with the flag as it is.
ExitScope_keep ==
    /\ scopes # << >>
    /\ scopes' = SubSeq(scopes, 1, Len(scopes) - 1)
    /\ last' = Last("exit")
    /\ UNCHANGED <<clock, tasks, end_fired, outside>>

\* Leaving the innermost open scope, on any path: `finally` restores.
ExitScope ==
    /\ scopes # << >>
    /\ enabled' = scopes[Len(scopes)]
    /\ scopes' = SubSeq(scopes, 1, Len(scopes) - 1)
    /\ last' = Last("exit")
    /\ UNCHANGED <<resolution_reciprocal, now, end, idle_timeout, idle_step,
                   idle_end, noop_limit, noop_cycle, noop_cycles, sync_futures,
                   sync_ts, selector, tasks, end_fired, outside>>

\* ------------------------------------------------------- the host scheduler

TaskIds == 1 .. MaxTasks

\* A task that asyncio.all_tasks() returns: one that is not done.
\*   new     : created, its first step is in the ready queue, _fut_waiter None
\*   yield   : suspended by a bare yield (sleep(0)), its step is in the ready
\*             queue, _fut_waiter None
\*   blocked : awaits a pending future, _fut_waiter; `when` is the deadline
\*             of the timer that resolves it, None for an indefinite wait
\*   woken   : the awaited future is done with `res`; the wake-up is in the
\*             ready queue and _fut_waiter still names the done future
Outstanding(t) == t.pc \in {"new", "yield", "blocked", "woken"}

\* The task's next step is in the host's ready queue.
InReady(t) == t.pc \in {"new", "yield", "woken"}

\* The deadlines of the scheduled timer handles.
Scheduled(ts) ==
    {Get(ts[i].when) : i \in {j \in TaskIds : ts[j].pc = "blocked"
                                              /\ ~IsNone(ts[j].when)}}

SetMin(S) == CHOOSE x \in S : \A y \in S : x <= y

\* The timeout BaseEventLoop._run_once passes to the selector: 0 with ready
\* handles, the time to the nearest timer (not below 0) with timers, else
\* None.
HostTimeout ==
    IF \E i \in TaskIds : InReady(tasks[i]) THEN Some(0)
    ELSE IF Scheduled(tasks) # {} THEN Some(Max(0, SetMin(Scheduled(tasks)) - Time))
    ELSE None

\* A task that is done with the result or the exception res.
Done(res) == [NoTask EXCEPT !.pc = "done", !.res = res]

\* One step of a task whose step is in the ready queue, at loop time `time`.
StepTask(t, time) ==
    IF t.pc = "woken" THEN Done(t.res)
    ELSE IF t.cancel THEN Done("CancelledError")
    ELSE IF t.pc = "yield" THEN Done("ok")
    ELSE IF IsNone(t.delay) THEN [NoTask EXCEPT !.pc = "blocked"]
    ELSE IF Get(t.delay) <= 0 THEN [NoTask EXCEPT !.pc = "yield"]
    ELSE [NoTask EXCEPT !.pc = "blocked", !.when = Some(time + Get(t.delay))]

\* The rest of BaseEventLoop._run_once after the selector returned, at loop
\* time `time`: the due timers resolve their futures, the ready handles run,
\* and the readiness of an awaited i/o (`io`, a task slot or 0) resolves it.
RunHandles(ts, time, io) ==
    [i \in TaskIds |->
        IF InReady(ts[i]) THEN StepTask(ts[i], time)
        ELSE IF ts[i].pc = "blocked" /\ ~IsNone(ts[i].when)
                /\ Get(ts[i].when) <= time
        THEN [ts[i] EXCEPT !.pc = "woken", !.res = "ok"]
        ELSE IF ts[i].pc = "blocked" /\ IsNone(ts[i].when) /\ io = i
        THEN [ts[i] EXCEPT !.pc = "woken", !.res = "ok"]
        ELSE ts[i]]

\* ------------------------------------------------------------- enforcement

\* The orders in which a loop over asyncio.all_tasks() may visit the tasks.
Orders == {o \in [TaskIds -> TaskIds] : \A i, j \in TaskIds : o[i] = o[j] => i = j}

\* `for task in asyncio.all_tasks()` from position k of order o: a pending
\* _fut_waiter gets the exception, a task without one is cancelled, and
\* set_exception on a future that is done raises InvalidStateError, which
\* ends the loop and the selector call.
RECURSIVE Inject(_, _, _, _)
Inject(ts, o, k, exc) ==
    IF k > MaxTasks THEN [tasks |-> ts, raised |-> ""]
    ELSE LET i == o[k]
         IN  IF ts[i].pc = "blocked"
             THEN Inject([ts EXCEPT ![i].pc = "woken", ![i].res = exc], o, k + 1, exc)
             ELSE IF ts[i].pc = "woken"
             THEN [tasks |-> ts, raised |-> "InvalidStateError"]
             ELSE IF ts[i].pc \in {"new", "yield"}
             THEN Inject([ts EXCEPT ![i].cancel = TRUE], o, k + 1, exc)
             ELSE Inject(ts, o, k + 1, exc)

\* A mutant of EndReached: the flag alone decides.
EndReached_flag(overtime, e, n) == overtime /\ ~IsNone(e)

\* The condition of the end-of-time enforcement at the end of a cycle.
EndReached(overtime, e, n) == overtime /\ ~IsNone(e) /\ n >= Get(e)

\* The condition of the idle-timeout enforcement at the end of a cycle.
IdleReached(overtime, ie, n) == overtime /\ ~IsNone(ie) /\ n >= Get(ie)

\* Both enforcement loops of __replaced_select, in their order: the tasks
\* afterwards, the exception that ended the call if one did, and the loops
\* that were entered.
Enforce(ts, o, fire_end, fire_idle) ==
    LET a == IF fire_end THEN Inject(ts, o, 1, "LoopTimeoutError")
             ELSE [tasks |-> ts, raised |-> ""]
        b == IF a.raised = "" /\ fire_idle
             THEN Inject(a.tasks, o, 1, "IdleTimeoutError")
             ELSE a
    IN  [tasks  |-> b.tasks,
         raised |-> b.raised,
         fired  |-> (IF fire_end THEN {"end"} ELSE {})
                    \cup (IF a.raised = "" /\ fire_idle THEN {"idle"} ELSE {})]

\* ------------------------------------------------------- step synchroniser

\* A mutant of Sync: a step that exactly reaches the end of time is not
\* flagged as overtime.
Sync_beyond(timeout, step, dl) ==
    LET s1 == IF ~IsNone(timeout)
              THEN IF ~IsNone(step)
                   THEN Some(Min(Get(step), Get(Time2Int(resolution_reciprocal, timeout))))
                   ELSE Time2Int(resolution_reciprocal, timeout)
              ELSE step
        o2 == IF ~IsNone(dl)
              THEN IF ~IsNone(s1) THEN Get(s1) >= Get(dl) - now ELSE TRUE
              ELSE FALSE
        s2 == IF ~IsNone(dl)
              THEN IF ~IsNone(s1) THEN Some(Min(Get(s1), Get(dl) - now))
                   ELSE Some(Get(dl) - now)
              ELSE s1
        o3 == IF ~IsNone(end)
              THEN IF ~IsNone(s2) THEN Get(s2) > Get(end) - now ELSE TRUE
              ELSE o2
        s3 == IF ~IsNone(end)
              THEN IF ~IsNone(s2) THEN Some(Min(Get(s2), Get(end) - now))
                   ELSE Some(Get(end) - now)
              ELSE s2
    IN  [timeout  |-> Int2Time(resolution_reciprocal, s3),
         step     |-> Get(Or(s3, Some(0))),
         overtime |-> o3]

\* A mutant of Sync: the step is not cut at the end of time.
Sync_unclamped(timeout, step, dl) ==
    LET s1 == IF ~IsNone(timeout)
              THEN IF ~IsNone(step)
                   THEN Some(Min(Get(step), Get(Time2Int(resolution_reciprocal, timeout))))
                   ELSE Time2Int(resolution_reciprocal, timeout)
              ELSE step
        o2 == IF ~IsNone(dl)
              THEN IF ~IsNone(s1) THEN Get(s1) >= Get(dl) - now ELSE TRUE
              ELSE FALSE
        s2 == IF ~IsNone(dl)
              THEN IF ~IsNone(s1) THEN Some(Min(Get(s1), Get(dl) - now))
                   ELSE Some(Get(dl) - now)
              ELSE s1
        o3 == IF ~IsNone(end)
              THEN IF ~IsNone(s2) THEN Get(s2) >= Get(end) - now ELSE TRUE
              ELSE o2
        s3 == IF ~IsNone(end)
              THEN IF ~IsNone(s2) THEN s2
                   ELSE Some(Get(end) - now)
              ELSE s2
    IN  [timeout  |-> Int2Time(resolution_reciprocal, s3),
         step     |-> Get(Or(s3, Some(0))),
         overtime |-> o3]

\* __sync(timeout, step, end): the tick step and the overtime flag; the real
\* timeout before the compensation of the code overhead.
Sync(timeout, step, dl) ==
    LET s1 == IF ~IsNone(timeout)
              THEN IF ~IsNone(step)
                   THEN Some(Min(Get(step), Get(Time2Int(resolution_reciprocal, timeout))))
                   ELSE Time2Int(resolution_reciprocal, timeout)
              ELSE step
        o2 == IF ~IsNone(dl)
              THEN IF ~IsNone(s1) THEN Get(s1) >= Get(dl) - now ELSE TRUE
              ELSE FALSE
        s2 == IF ~IsNone(dl)
              THEN IF ~IsNone(s1) THEN Some(Min(Get(s1), Get(dl) - now))
                   ELSE Some(Get(dl) - now)
              ELSE s1
        o3 == IF ~IsNone(end)
              THEN IF ~IsNone(s2) THEN Get(s2) >= Get(end) - now ELSE TRUE
              ELSE o2
        s3 == IF ~IsNone(end)
              THEN IF ~IsNone(s2) THEN Some(Min(Get(s2), Get(end) - now))
                   ELSE Some(Get(end) - now)
              ELSE s2
    IN  [timeout  |-> Int2Time(resolution_reciprocal, s3),
         step     |-> Get(Or(s3, Some(0))),
         overtime |-> o3]

\* The real timeout of __sync after the code overhead `ov` since the last
\* synchronisation is taken off (only when there was one).
RealTimeout(real_timeout, ov) ==
    IF ~IsNone(real_timeout) /\ sync_ts /\ ov > 0
    THEN Some(Max(0, Get(real_timeout) - ov))
    ELSE real_timeout

\* ---------------------------------------------------------------- a cycle

\* A mutant of Advance: the step is assigned, not added.
Advance_assign(n, step) == step

\* `self.__now += step`.
Advance(n, step) == n + step

\* A positive timeout.
Positive(timeout) == ~IsNone(timeout) /\ Get(timeout) # 0

\* The largest loop time the model lets a cycle reach (quanta).
Horizon == MaxSec * Q + Q

\* The readiness of a registered executor future, as an i/o target.
ExecDone == MaxTasks + 1

\* A mutant of ReadyClears: ready i/o restarts the idle countdown only.
ReadyClears_idle(b) ==
    IF b.ready THEN [b EXCEPT !.idle_end = None] ELSE b

\* A mutant of ReadyClears: ready i/o ends the throttle run only.
ReadyClears_throttle(b) ==
    IF b.ready THEN [b EXCEPT !.noop_limit = None, !.noop_cycle = None] ELSE b

\* `if ready:`: with any i/o, all the idling countdowns restart anew.
ReadyClears(b) ==
    IF b.ready
    THEN [b EXCEPT !.idle_end = None, !.noop_limit = None, !.noop_cycle = None]
    ELSE b

\* The end of __replaced_select and of the host's cycle that called it.
\* c holds what the branch assigned: now, idle_end, noop_limit, noop_cycle,
\* sync_ts, ready, overtime, waited and the branch's name; o is the order of
\* the enforcement loops; io is what the ready i/o was: the awaited i/o of a
\* task, the completion of an executor future, or 0 for anything else.
Finish(timeout, c, o, io) ==
    \E b \in {ReadyClears(c)} :
    \E ie \in {b.idle_end} :
    \E e \in {Enforce(tasks, o, EndReached(b.overtime, end, b.now),
                      IdleReached(b.overtime, ie, b.now))} :
    \E t1 \in {Get(Int2Time(resolution_reciprocal, Some(b.now)))} :
        /\ t1 <= Horizon
        /\ now' = b.now
        /\ idle_end' = ie
        /\ noop_limit' = b.noop_limit
        /\ noop_cycle' = b.noop_cycle
        /\ sync_ts' = b.sync_ts
        /\ sync_futures' = IF e.raised = "" /\ b.ready /\ io = ExecDone
                           THEN sync_futures - 1 ELSE sync_futures
        /\ tasks' = IF e.raised # "" THEN e.tasks
                    ELSE RunHandles(e.tasks, t1, IF b.ready THEN io ELSE 0)
        /\ last' = [Last("cycle") EXCEPT
                        !.branch = b.branch,
                        !.overtime = b.overtime, !.waited = b.waited,
                        !.ready = b.ready, !.early = b.early,
                        !.timeout = timeout,
                        !.quiet = /\ Positive(timeout) /\ ~b.ready
                                  /\ ~b.waited /\ b.now = now,
                        !.run = IF last.op = "cycle" /\ last.quiet
                                THEN Min(last.run + 1, MaxNoop + 1) ELSE 0,
                        !.raised = e.raised, !.fired = e.fired]
        /\ end_fired' = IF /\ "end" \in e.fired
                            /\ e.raised = ""
                            /\ \E i \in TaskIds : tasks[i].pc = "blocked"
                         THEN (IF end_fired = "no" THEN "once" ELSE "again")
                         ELSE end_fired
        /\ UNCHANGED <<resolution_reciprocal, end, idle_timeout, idle_step,
                       noop_cycles, enabled, selector, scopes, outside>>

\* What a branch has when it assigned nothing.
Same(branch) ==
    [now |-> now, idle_end |-> idle_end, noop_limit |-> noop_limit,
     noop_cycle |-> noop_cycle, sync_ts |-> sync_ts, ready |-> FALSE,
     early |-> FALSE, overtime |-> FALSE, waited |-> FALSE, branch |-> branch]

\* What the ready i/o of a cycle may be.
IoTargets ==
    {0} \cup {i \in TaskIds : tasks[i].pc = "blocked" /\ IsNone(tasks[i].when)}
        \cup (IF sync_futures > 0 THEN {ExecDone} ELSE {})

\* The order of a cycle that enforces nothing.
NoOrder == [i \in TaskIds |-> i]

\* The orders that matter: one when at most one task is outstanding.
EnforceOrders ==
    IF Cardinality({i \in TaskIds : Outstanding(tasks[i])}) > 1
    THEN Orders ELSE {NoOrder}

\* The two polls of a split step: a readiness that the first poll saw is
\* still there for the second (nothing is read in between).
SplitPolls(R) == {p \in R \X R : p[1] => p[2]}

\* A mutant of CycleReady: the ready i/o is returned a tick later.
CycleReady_late ==
    \E io \in IoTargets :
        Finish(HostTimeout,
               [Same("ready") EXCEPT !.ready = TRUE, !.now = Advance(now, 1)],
               NoOrder, io)

\* The immediate poll found i/o ready: nothing else happens.
CycleReady ==
    \E io \in IoTargets :
        Finish(HostTimeout, [Same("ready") EXCEPT !.ready = TRUE], NoOrder, io)

\* A mutant of CycleDisabled: a wait that ends with nothing ready leaves
\* the clock where it was.
CycleDisabled_still(R) ==
    /\ ~enabled
    /\ \E ready \in R :
        LET timeout == HostTimeout
            spans   == IF ~ready THEN {0}
                       ELSE IF IsNone(timeout) THEN 0 .. Q
                       ELSE 0 .. Get(timeout)
        IN  /\ IsNone(timeout) => ready
            /\ \E elapsed \in spans, io \in (IF ready THEN IoTargets ELSE {0}) :
                LET moved == IF ready \/ IsNone(timeout) THEN Some(elapsed) ELSE timeout
                IN  Finish(timeout,
                           [Same("disabled") EXCEPT
                               !.now = IF ready THEN Advance(now, Get(Time2Int(resolution_reciprocal, moved)))
                                       ELSE now,
                               !.ready = ready,
                               !.waited = timeout # Some(0)],
                           NoOrder, io)

\* A mutant of CycleDisabled: the wait flags the cycle as overtime.
CycleDisabled_overtime(R) ==
    /\ ~enabled
    /\ \E ready \in R, o \in EnforceOrders :
        LET timeout == HostTimeout
            spans   == IF ~ready THEN {0}
                       ELSE IF IsNone(timeout) THEN 0 .. Q
                       ELSE 0 .. Get(timeout)
        IN  /\ IsNone(timeout) => ready
            /\ \E elapsed \in spans, io \in (IF ready THEN IoTargets ELSE {0}) :
                LET moved == IF ready \/ IsNone(timeout) THEN Some(elapsed) ELSE timeout
                IN  Finish(timeout,
                           [Same("disabled") EXCEPT
                               !.now = Advance(now, Get(Time2Int(resolution_reciprocal, moved))),
                               !.ready = ready,
                               !.overtime = TRUE,
                               !.waited = timeout # Some(0)],
                           o, io)

\* Not enabled: a real wait for the timeout; the clock moves by the time
\* measured if i/o came or the wait was unbounded, else by the timeout.
CycleDisabled(R) ==
    /\ ~enabled
    /\ \E ready \in R :
        LET timeout == HostTimeout
            spans   == IF ~ready THEN {0}
                       ELSE IF IsNone(timeout) THEN 0 .. Q
                       ELSE 0 .. Get(timeout)
        IN  /\ IsNone(timeout) => ready
            /\ \E elapsed \in spans, io \in (IF ready THEN IoTargets ELSE {0}) :
                LET moved == IF ready \/ IsNone(timeout) THEN Some(elapsed) ELSE timeout
                IN  Finish(timeout,
                           [Same("disabled") EXCEPT
                               !.now = Advance(now, Get(Time2Int(resolution_reciprocal, moved))),
                               !.ready = ready,
                               !.waited = timeout # Some(0)],
                           NoOrder, io)

\* A mutant of SplitStep: the clock moves only if neither poll found
\* anything.
SplitStep_neither(timeout, branch, s, ie, R) ==
    \E p \in SplitPolls(R), ov \in (IF sync_ts THEN Overheads ELSE {0}),
       o \in EnforceOrders :
        LET rt == RealTimeout(s.timeout, ov)
        IN  /\ IsNone(rt) => p[1]
            /\ \E io \in (IF p[2] THEN IoTargets ELSE {0}) :
                Finish(timeout,
                       [Same(branch) EXCEPT
                           !.now = Advance(now, IF p[2] THEN 0 ELSE s.step),
                           !.idle_end = ie,
                           !.noop_limit = IF branch = "executor" THEN None ELSE noop_limit,
                           !.noop_cycle = IF branch = "executor" THEN None ELSE noop_cycle,
                           !.sync_ts = TRUE,
                           !.ready = p[2],
                           !.early = p[1],
                           !.overtime = s.overtime,
                           !.waited = IsNone(rt) \/ Get(rt) > 0],
                       o, io)

\* The two polls of 80% and 20% of the real timeout, and the step if the first
\* poll found nothing.
SplitStep(timeout, branch, s, ie, R) ==
    \E p \in SplitPolls(R), ov \in (IF sync_ts THEN Overheads ELSE {0}),
       o \in EnforceOrders :
        LET rt == RealTimeout(s.timeout, ov)
        IN  /\ IsNone(rt) => p[1]
            /\ \E io \in (IF p[2] THEN IoTargets ELSE {0}) :
                Finish(timeout,
                       [Same(branch) EXCEPT
                           !.now = Advance(now, IF p[1] THEN 0 ELSE s.step),
                           !.idle_end = ie,
                           !.noop_limit = IF branch = "executor" THEN None ELSE noop_limit,
                           !.noop_cycle = IF branch = "executor" THEN None ELSE noop_cycle,
                           !.sync_ts = TRUE,
                           !.ready = p[2],
                           !.early = p[1],
                           !.overtime = s.overtime,
                           !.waited = IsNone(rt) \/ Get(rt) > 0],
                       o, io)

\* Executor futures are pending: the time moves in real-time steps.
CycleExecutor(R) ==
    /\ enabled
    /\ sync_futures > 0
    /\ SplitStep(HostTimeout, "executor", Sync(HostTimeout, idle_step, None),
                 idle_end, R)

\* The idle deadline as the idle branch sets it on the first idle cycle.
IdleEnd ==
    IF IsNone(idle_end) /\ ~IsNone(idle_timeout)
    THEN Some(now + Get(idle_timeout)) ELSE idle_end

\* Nothing to run and no timer: idle steps towards the idle deadline.
CycleIdle(R) ==
    /\ enabled
    /\ sync_futures = 0
    /\ IsNone(HostTimeout)
    /\ SplitStep(None, "idle", Sync(None, idle_step, IdleEnd), IdleEnd, R)

\* A mutant of CyclePoll: the count is set to 0 with or without a limit.
CyclePoll_always ==
    /\ enabled
    /\ sync_futures = 0
    /\ HostTimeout = Some(0)
    /\ Finish(HostTimeout, [Same("poll") EXCEPT !.noop_cycle = Some(0)],
              NoOrder, 0)

\* A poll only (timeout 0): a throttle run starts counting anew.
CyclePoll ==
    /\ enabled
    /\ sync_futures = 0
    /\ HostTimeout = Some(0)
    /\ Finish(HostTimeout,
              [Same("poll") EXCEPT
                  !.noop_cycle = IF ~IsNone(noop_limit) THEN Some(0) ELSE noop_cycle],
              NoOrder, 0)

\* A positive timeout and no throttle run: one starts.
CycleNoopStart ==
    /\ enabled
    /\ sync_futures = 0
    /\ Positive(HostTimeout)
    /\ IsNone(noop_limit) \/ IsNone(noop_cycle)
    /\ Finish(HostTimeout,
              [Same("noop_start") EXCEPT
                  !.noop_limit = Some(noop_cycles), !.noop_cycle = Some(0)],
              NoOrder, 0)

\* A throttle run that is not over: it counts.
CycleNoopStep ==
    /\ enabled
    /\ sync_futures = 0
    /\ Positive(HostTimeout)
    /\ ~IsNone(noop_limit) /\ ~IsNone(noop_cycle)
    /\ Get(noop_cycle) < Get(noop_limit)
    /\ Finish(HostTimeout,
              [Same("noop_step") EXCEPT !.noop_cycle = Some(Get(noop_cycle) + 1)],
              NoOrder, 0)

\* The throttle run is over: the clock jumps to the nearest timer.
CycleJump ==
    /\ enabled
    /\ sync_futures = 0
    /\ Positive(HostTimeout)
    /\ ~IsNone(noop_limit) /\ ~IsNone(noop_cycle)
    /\ ~(Get(noop_cycle) < Get(noop_limit))
    /\ \E o \in EnforceOrders :
        LET s == Sync(HostTimeout, None, None)
        IN  Finish(HostTimeout,
                   [Same("jump") EXCEPT
                       !.now = Advance(now, s.step),
                       !.noop_limit = None, !.noop_cycle = None,
                       !.sync_ts = TRUE,
                       !.overtime = s.overtime],
                   o, 0)

\* ------------------------------------------------------------ the callers

\* A caller starts an operation in a slot: a delay, or an indefinite wait.
Spawn ==
    \E i \in TaskIds, d \in DelayOptions :
        /\ tasks[i].pc \in {"free", "done"}
        /\ IF IsNone(d) THEN TRUE ELSE Time + Get(d) <= MaxSec * Q
        /\ tasks' = [tasks EXCEPT ![i] = [NoTask EXCEPT !.pc = "new", !.delay = d]]
        /\ last' = Last("spawn")
        /\ UNCHANGED <<clock, scopes, end_fired, outside>>

\* run_in_executor: the future of the delegated call is registered.
RunInExecutor ==
    /\ sync_futures < MaxExec
    /\ sync_futures' = sync_futures + 1
    /\ last' = Last("run_in_executor")
    /\ UNCHANGED <<resolution_reciprocal, now, end, idle_timeout, idle_step,
                   idle_end, noop_limit, noop_cycle, noop_cycles, enabled,
                   sync_ts, selector, scopes, tasks, end_fired, outside>>

\* The cycles of a loop whose selector never finds anything ready.
QuietCycle ==
    \/ CycleDisabled({FALSE})
    \/ CycleExecutor({FALSE})
    \/ CycleIdle({FALSE})
    \/ CyclePoll
    \/ CycleNoopStart
    \/ CycleNoopStep
    \/ CycleJump

NextQuiet ==
    \/ QuietCycle
    \/ Spawn
    \/ RunInExecutor

SpecQuiet == Init /\ [][NextQuiet]_vars

\* The same, with a host that goes on running its cycles: BaseEventLoop's
\* run_forever() runs _run_once() again for as long as it is not stopped.
SpecQuietFair == InitFair /\ [][NextQuiet]_vars /\ WF_vars(QuietCycle)

\* The cycles of a loop that stays enabled.
EnabledCycle ==
    \/ CycleReady
    \/ CycleExecutor(BOOLEAN)
    \/ CycleIdle(BOOLEAN)
    \/ CyclePoll
    \/ CycleNoopStart
    \/ CycleNoopStep
    \/ CycleJump

NextRun ==
    \/ EnabledCycle
    \/ Spawn
    \/ RunInExecutor

\* A loop that runs enabled, with the options it was constructed with:
\* its cycles, with i/o that may be ready, and the operations its tasks start.
SpecRun == InitLoop /\ [][NextRun]_vars

\* setup_looptime() again on a loop that runs: the calls of the model.
ReSetupArgs ==
    {Defaults,
     [Defaults EXCEPT !.start = Some(0)],
     [Defaults EXCEPT !.end = Some(Q), !.resolution = Q],
     [Defaults EXCEPT !.start = Some(0), !.end = Some(Q), !.resolution = Q],
     [Defaults EXCEPT !.enabled = Some(TRUE)],
     [Defaults EXCEPT !.enabled = Some(FALSE)]}

\* Whether the warnings filter makes an error of the TimeWarning of a call.
Strictness(a) ==
    IF MovesBackwards(Int2Time(resolution_reciprocal, Some(now)), a.start)
    THEN BOOLEAN ELSE {FALSE}

Reconfigure ==
    \E a \in ReSetupArgs : \E strict \in Strictness(a) : Setup(a, strict)

\* One cycle of the event loop: BaseEventLoop._run_once with the replaced
\* selector call in it.
Cycle ==
    \/ CycleReady
    \/ CycleDisabled(BOOLEAN)
    \/ CycleExecutor(BOOLEAN)
    \/ CycleIdle(BOOLEAN)
    \/ CyclePoll
    \/ CycleNoopStart
    \/ CycleNoopStep
    \/ CycleJump

Next ==
    \/ Cycle
    \/ Spawn
    \/ RunInExecutor
    \/ Reconfigure
    \/ EnterScope
    \/ ExitScope

Spec == InitLoop /\ [][Next]_vars

\* The calls of a sequence of setup_looptime() calls.
SetupCalls ==
    {a \in SetupArgs : /\ a.idle_step \in {None, Some(Q)}
                       /\ a.idle_timeout \in {None, Some(Q)}}

\* Only setup_looptime() calls.
NextSetup ==
    \E a \in SetupCalls : \E strict \in Strictness(a) : Setup(a, strict)

SpecSetup == Init /\ [][NextSetup]_vars

\* ------------------------------------------------------------ the enabler

\* What the loop object keeps besides its flag while the enabler acts.
frame == <<resolution_reciprocal, now, end, idle_timeout, idle_step, idle_end,
           noop_limit, noop_cycle, noop_cycles, sync_futures, sync_ts,
           selector, scopes, tasks, end_fired, class_cache, made, item,
           converted>>

\* enabled.__enter__ with a patched loop: `self._mgr = loop.looptime_enabled()`
\* takes the last reference from the manager that _mgr named; if that one
\* is suspended at its yield, its generator is finalized, which runs its
\* `finally` and sets the flag back to false, at once where objects are
\* reference-counted and nothing else names it (prompt), later otherwise.
\* Then the new manager is entered: RuntimeError if the flag is true.
EnablerEnter ==
    /\ Len(enabler.open) < MaxNest
    /\ \E prompt \in (IF enabler.mgr = "suspended" THEN BOOLEAN ELSE {TRUE}) :
        LET dropped == enabler.mgr = "suspended"
            on      == IF dropped /\ prompt THEN FALSE ELSE enabled
            left    == enabler.orphans + (IF dropped /\ ~prompt THEN 1 ELSE 0)
        IN  IF on
            THEN /\ enabled' = on
                 /\ enabler' = [mgr |-> "closed", open |-> enabler.open,
                                orphans |-> left]
                 /\ last' = [Last("enabler_enter") EXCEPT !.raised = "RuntimeError"]
            ELSE /\ enabled' = TRUE
                 /\ enabler' = [mgr |-> "suspended",
                                open |-> Append(enabler.open, enabled),
                                orphans |-> left]
                 /\ last' = Last("enabler_enter")
    /\ UNCHANGED frame

\* enabled.__exit__ at the end of a scope that was entered: the manager that
\* _mgr names, if any, is exited (a suspended one restores the flag, one
\* whose generator is over does nothing) and _mgr is None again.
EnablerExit ==
    /\ enabler.open # << >>
    /\ enabled' = IF enabler.mgr = "suspended" THEN FALSE ELSE enabled
    /\ enabler' = [enabler EXCEPT
                      !.mgr = "none",
                      !.open = SubSeq(enabler.open, 1, Len(enabler.open) - 1)]
    /\ last' = Last("enabler_exit")
    /\ UNCHANGED frame

\* The garbage collector finalizes a manager that was left behind: its
\* generator is closed at its yield and its `finally` runs.
Collect ==
    /\ enabler.orphans > 0
    /\ enabled' = FALSE
    /\ enabler' = [enabler EXCEPT !.orphans = enabler.orphans - 1]
    /\ last' = Last("collect")
    /\ UNCHANGED frame

NextEnabler ==
    \/ EnablerEnter
    \/ EnablerExit
    \/ Collect

\* A loop that is patched disabled or enabled.
InitEnabler ==
    \E a \in {b \in SetupArgs : /\ b.start = None /\ b.end = None
                                /\ b.idle_step = None /\ b.idle_timeout = None} :
        Constructed(a)

\* One looptime.enabled object used as a context manager or as a decorator
\* on a patched loop, by callers that may nest its scopes.
SpecEnabler == InitEnabler /\ [][NextEnabler]_vars

\* --------------------------------------------------------- class factory

\* The name of the mixin class.
LoopTimeEventLoop == <<"LoopTimeEventLoop">>

\* A class: its __name__ as the sequence of the parts it was put together
\* from, and the names of the classes it derives from, itself included.
Class(name, bases) == [name |-> name, mro |-> {name} \cup bases]

\* The original classes of the callers: three without the mixin, one of them
\* derived from another, and one that inherits the mixin already.
BaseEventLoop == Class(<<"BaseEventLoop">>, {})

MyEventLoop == Class(<<"MyEventLoop">>, BaseEventLoop.mro)

ExtEventLoop == Class(<<"ExtEventLoop">>, MyEventLoop.mro)

InheritedEventLoop ==
    Class(<<"InheritedEventLoop">>, {LoopTimeEventLoop} \cup BaseEventLoop.mro)

OriginalClasses == {BaseEventLoop, MyEventLoop, ExtEventLoop, InheritedEventLoop}

\* The prefixes of the calls: the default one and a custom one.
DefaultPrefix == <<"Looptime">>

Prefixes == {DefaultPrefix, <<"Some">>}

\* issubclass(cls, loops.LoopTimeEventLoop).
HasMixin(cls) == LoopTimeEventLoop \in cls.mro

\* type(f'{prefix}{cls.__name__}', (loops.LoopTimeEventLoop, cls), {}).
NewClass(cls, prefix) ==
    Class(prefix \o cls.name, {LoopTimeEventLoop} \cup cls.mro)

\* The key of _class_cache: the original class alone.
CacheKey(cls, prefix) == cls.name

\* The body of make_event_loop_class(cls, prefix=prefix): the cache
\* afterwards and the record of the call.
MakeEventLoopClass(cls, prefix) ==
    LET key   == CacheKey(cls, prefix)
        cache == IF HasMixin(cls) \/ key \in DOMAIN class_cache
                 THEN class_cache
                 ELSE [k \in DOMAIN class_cache \cup {key} |->
                          IF k = key THEN NewClass(cls, prefix)
                          ELSE class_cache[k]]
    IN  /\ class_cache' = cache
        /\ made' = [op |-> "make", cls |-> Some(cls), prefix |-> Some(prefix),
                    result |-> Some(IF HasMixin(cls) THEN cls ELSE cache[key])]

\* reset_caches().
ResetCaches ==
    /\ class_cache' = << >>
    /\ made' = [NoCall EXCEPT !.op = "reset"]
    /\ UNCHANGED <<clock, scopes, tasks, last, end_fired, item, converted, enabler>>

\* The classes a caller may pass: the originals and what the last call
\* returned.
CallerClasses ==
    OriginalClasses \cup (IF IsNone(made.result) THEN {} ELSE {Get(made.result)})

\* A caller's make_event_loop_class call.
MakeClass ==
    \E cls \in CallerClasses, prefix \in Prefixes :
        /\ MakeEventLoopClass(cls, prefix)
        /\ UNCHANGED <<clock, scopes, tasks, last, end_fired, item, converted, enabler>>

NextClasses ==
    \/ MakeClass
    \/ ResetCaches

\* The module as imported, next to a loop with the default options.
InitClasses == Constructed(Defaults)

\* Any sequence of make_event_loop_class and reset_caches calls.
SpecClasses == InitClasses /\ [][NextClasses]_vars

\* -------------------------------------------------------- clock converter

\* The resolutions a loop may be given, in quanta: from a quarter of a
\* second to two seconds.
ConvertResolutions == 1 .. 2 * Q

\* The times and durations to convert, in quanta.
ConvertTimes == (0 - MaxSec * Q) .. (MaxSec * Q)

\* A loop is configured with the resolution r; the time x goes through
\* __time2int and the ticks through __int2time, as loop.time() does with the
\* start.  The division by a reciprocal of 0 raises.
Convert(r, x) ==
    LET rr    == Reciprocal(r)
        ticks == Time2Int(rr, Some(x))
    IN  [op |-> "convert", resolution |-> Some(r), time |-> Some(x),
         ticks |-> ticks,
         seconds |-> IF rr = 0 THEN None ELSE Int2Time(rr, ticks),
         raised |-> IF rr = 0 THEN "ZeroDivisionError" ELSE ""]

RoundTrip ==
    /\ \E r \in ConvertResolutions, x \in ConvertTimes : converted' = Convert(r, x)
    /\ UNCHANGED <<clock, scopes, tasks, last, end_fired, class_cache, made, item,
                   enabler>>

\* Conversions of any time under any resolution, one after another.
SpecConvert == InitClasses /\ [][RoundTrip]_vars

\* --------------------------------------------------------- pytest plugin

\* The loop scopes of pytest-asyncio that the model's markers name.
LoopScopeOptions == {None, Some("function"), Some("session")}

\* A looptime marker: its positional value if it has one, its loop_scope
\* keyword if it has one, and its start option if it has one.
Markers ==
    [args : {None, Some(TRUE), Some(FALSE)},
     loop_scope : LoopScopeOptions,
     start : {None, Some(Q)}]

\* The most markers on a test.
MaxMarkers == 2

\* The markers of a test as node.iter_markers yields them, closest first.
MarkerLists ==
    UNION {[1 .. n -> Markers] : n \in 0 .. MaxMarkers}

\* The looptime option of the command line: --looptime, --no-looptime or
\* neither.
Flags == {None, Some(TRUE), Some(FALSE)}

\* dict.update with the keyword arguments of a marker: a start given
\* replaces the one accumulated.
Update(kwargs, start) == IF IsNone(start) THEN kwargs ELSE start

\* d[key] = value on a dict held as a function.
Put(d, key, value) ==
    [k \in DOMAIN d \cup {key} |-> IF k = key THEN value ELSE d[k]]

\* The loop `for marker in reversed(markers)` of _get_options from
\* position k down to the closest marker.
RECURSIVE Accumulate(_, _, _)
Accumulate(ms, k, acc) ==
    IF k = 0 THEN acc
    ELSE LET m   == ms[k]
             sc  == m.loop_scope
             old == IF sc \in DOMAIN acc.options THEN acc.options[sc] ELSE None
         IN  Accumulate(ms, k - 1,
                [options |-> Put(acc.options, sc, Update(old, m.start)),
                 enabled |-> IF IsNone(m.args) THEN acc.enabled
                             ELSE Put(acc.enabled, sc, Get(m.args))])

\* The scopes _get_options goes through; None is the running loop.
Scopes ==
    {Some("session"), Some("package"), Some("module"), Some("class"),
     Some("function"), None}

\* Whether _get_options keeps a scope: the positional value of a marker
\* if one was given for the scope, else marked or --looptime, and not
\* --no-looptime.
Kept(acc, flag, sc) ==
    IF sc \in DOMAIN acc.enabled THEN acc.enabled[sc]
    ELSE (sc \in DOMAIN acc.options \/ flag = Some(TRUE)) /\ flag # Some(FALSE)

\* _get_options(node): the options by loop scope, of the scopes kept.
GetOptions(ms, flag) ==
    LET acc == Accumulate(ms, Len(ms), [options |-> << >>, enabled |-> << >>])
    IN  [sc \in {x \in Scopes : Kept(acc, flag, x)} |->
            IF sc \in DOMAIN acc.options THEN acc.options[sc] ELSE None]

\* setup_looptime(**kwargs) with the keyword arguments of the markers.
MarkerArgs(start) == [Defaults EXCEPT !.start = start]

\* pytest parses the command line (pytest_addoption) and the session
\* begins.
ParseOptions ==
    /\ item.phase = "none"
    /\ \E flag \in Flags : item' = [NoItem EXCEPT !.flag = flag, !.phase = "done"]
    /\ UNCHANGED <<clock, scopes, tasks, last, end_fired, class_cache, made,
                   converted, enabler>>

\* pytest_fixture_setup for the function-scoped event loop of the next
\* test: the new loop is patched with _enabled=False.
FixtureSetup ==
    /\ item.phase = "done"
    /\ \E ms \in MarkerLists : item' = [item EXCEPT !.markers = ms, !.phase = "setup"]
    /\ MakeEventLoopClass(BaseEventLoop, DefaultPrefix)
    /\ Assign(SetupFields(None, None, [Defaults EXCEPT !.enabled = Some(FALSE)]))
    /\ scopes' = << >>
    /\ tasks' = [i \in 1 .. MaxTasks |-> NoTask]
    /\ last' = [Last("fixture") EXCEPT !.override = Some(FALSE)]
    /\ end_fired' = "no"
    /\ UNCHANGED <<converted, enabler>>

\* pytest_pyfunc_call up to the test function: the loop of the test, the
\* running loop, is set up with the options of its scope and of the running
\* loop; if the running loop's options were kept it is set up with them
\* again and looptime_enabled() is entered.
PyfuncCall ==
    /\ item.phase = "setup"
    /\ LET so  == GetOptions(item.markers, item.flag)
           run == None \in DOMAIN so
           o1  == IF Some("function") \in DOMAIN so THEN so[Some("function")] ELSE None
           o2  == IF None \in DOMAIN so THEN Update(o1, so[None]) ELSE o1
           t0  == Int2Time(resolution_reciprocal, Some(now))
           f1  == SetupFields(t0, Some(enabled), MarkerArgs(o2))
           t1  == Int2Time(f1.resolution_reciprocal, Some(f1.now))
           f2  == IF None \in DOMAIN so
                  THEN SetupFields(t1, Some(f1.enabled), MarkerArgs(so[None]))
                  ELSE f1
       IN  /\ Assign([f2 EXCEPT !.enabled = run])
           /\ scopes' = IF run THEN <<f2.enabled>> ELSE << >>
           /\ last' = [Last("test") EXCEPT !.start = o2]
    /\ item' = [item EXCEPT !.phase = "running"]
    /\ end_fired' = "no"
    /\ UNCHANGED <<tasks, class_cache, made, converted, enabler>>

\* The rest of pytest_pyfunc_call, after the test function: the scope of
\* looptime_enabled() is left if it was entered.
PyfuncReturn ==
    /\ item.phase = "running"
    /\ item' = [item EXCEPT !.phase = "done"]
    /\ enabled' = IF scopes # << >> THEN scopes[Len(scopes)] ELSE enabled
    /\ scopes' = << >>
    /\ last' = Last("tested")
    /\ UNCHANGED <<resolution_reciprocal, now, end, idle_timeout, idle_step,
                   idle_end, noop_limit, noop_cycle, noop_cycles, sync_futures,
                   sync_ts, selector, tasks, end_fired, class_cache, made,
                   converted, enabler>>

NextPlugin ==
    \/ ParseOptions
    \/ FixtureSetup
    \/ PyfuncCall
    \/ PyfuncReturn

\* A pytest session: the command line, then one test after another, each
\* with its own event loop.
SpecPlugin == InitClasses /\ [][NextPlugin]_vars

\* ------------------------------------------------------------ properties

\* A step in which operation i, woken by its timer, completes normally.
Completes(i) ==
    /\ tasks[i].pc = "woken"
    /\ tasks[i].res = "ok"
    /\ ~IsNone(tasks[i].when)
    /\ tasks'[i] = Done("ok")

\* Virtual time with no end of time and no idle timeout.
Unbounded ==
    enabled /\ IsNone(end) /\ IsNone(idle_timeout)

\* time is a whole number of ticks of the loop.
OnGrid(time) ==
    Get(Int2Time(resolution_reciprocal,
                 Time2Int(resolution_reciprocal, Some(time)))) = time

Sleeps(i) ==
    tasks[i].pc = "blocked" /\ ~IsNone(tasks[i].when)

\* C2, as the spec states it: with virtual time enabled, no end of time and
\* no idle timeout, every operation that waits N > 0 seconds, also an N
\* that is not a whole number of ticks, eventually completes; stated for
\* the runs in which no work is delegated to an executor.
C2_Completes ==
    [](sync_futures = 0) =>
        \A i \in TaskIds : (Unbounded /\ Sleeps(i)) ~> (tasks[i] = Done("ok"))

\* A step that is a cycle of the loop.
IsCycle == last'.op = "cycle"

\* A step in which operation i is failed with the exception exc.
Fails(i, exc) ==
    /\ tasks[i].res # exc
    /\ tasks'[i].res = exc

\* C3: the end-of-time enforcement fires only in a cycle after which the
\* time has reached the end: no cycle enters it, and no operation is failed
\* with LoopTimeoutError, while now < end or while no end is set.
C3_OnlyAtEnd ==
    [][IsCycle /\ ("end" \in last'.fired
                   \/ \E i \in TaskIds : Fails(i, "LoopTimeoutError"))
          => ~IsNone(end') /\ now' >= Get(end')]_vars

\* C3's case: a cycle has failed a waiting operation at the end of time.
C3_Witness ==
    /\ last.op = "cycle"
    /\ "end" \in last.fired
    /\ \E i \in TaskIds : tasks[i] = Done("LoopTimeoutError")
    /\ now = Get(end)

\* C5, as the spec states it: the end-of-time enforcement fires once per
\* crossing: after a cycle in which it failed the waiting operations, no
\* later cycle fires it on an operation again while the end is the same.
C5_Once ==
    end_fired # "again"

\* C5, amended: the enforcement fires in every direct-jump cycle that ends
\* with now >= end: in the cycle that reaches the end, and again in each
\* later one for as long as the end is not changed.
C5_EveryJump ==
    [][IsCycle /\ last'.branch = "jump" /\ ~IsNone(end') /\ now' >= Get(end')
          => "end" \in last'.fired]_vars

\* C5's case: a direct jump at the end of time has failed an operation,
\* after an earlier cycle had done so for the same end.
C5_Witness ==
    /\ end_fired = "again"
    /\ last.op = "cycle"
    /\ last.branch = "jump"
    /\ "end" \in last.fired
    /\ \E i \in TaskIds : tasks[i] = Done("LoopTimeoutError")

\* C7, as the spec states it: with virtual time enabled, no cycle moves the
\* clock backwards, whatever the branch, the timeout, the end of time, the
\* idle deadline and the disabled periods before it.
C7_Monotonic ==
    [][IsCycle /\ enabled => now' >= now]_vars

\* The time of the end of time, in quanta.
EndTime == Get(Int2Time(resolution_reciprocal, end))

\* Operation i waits with no timer of its own.
WaitsForever(i) ==
    tasks[i].pc = "blocked" /\ IsNone(tasks[i].when)

\* Operation i waits, forever or until after the end of time.
WaitsBeyondEnd(i) ==
    /\ enabled
    /\ ~IsNone(end)
    /\ now <= Get(end)
    /\ tasks[i].pc = "blocked"
    /\ (IsNone(tasks[i].when) \/ Get(tasks[i].when) > EndTime)

\* Operation i has failed with LoopTimeoutError and the time is the end.
FailedAtEnd(i) ==
    tasks[i] = Done("LoopTimeoutError") /\ now = Get(end)

\* An idle step that moves the clock: none set, or one of a tick at least.
IdleStepMoves ==
    IsNone(idle_step) \/ Get(idle_step) >= 1

\* A run in which no work is delegated and one operation at most is
\* outstanding at a time.
Alone ==
    /\ sync_futures = 0
    /\ Cardinality({i \in TaskIds : Outstanding(tasks[i])}) <= 1

\* C4, as the spec states it: with an end of time E not yet passed, virtual
\* time enabled and nothing ever ready, an operation that waits forever or
\* until after E is eventually failed with LoopTimeoutError, and the time
\* is E then; stated for the runs in which no work is delegated to an
\* executor.
C4_FailsAtEnd ==
    [](sync_futures = 0) =>
        \A i \in TaskIds : WaitsBeyondEnd(i) ~> FailedAtEnd(i)

\* The part of C4 that the loop keeps: the same, for an operation that is
\* the only one, when no idle timeout is set and the idle step, if one is
\* set, is of one tick at least.
C4_FailsAtEndNoIdle ==
    []Alone =>
        \A i \in TaskIds :
            (WaitsBeyondEnd(i) /\ IsNone(idle_timeout) /\ IdleStepMoves)
                ~> FailedAtEnd(i)

\* A wait that would have lasted until after the end of time has been
\* failed at the end of time, with no idle timeout set.
C4_Witness ==
    /\ enabled /\ IsNone(idle_timeout) /\ IdleStepMoves
    /\ last.op = "cycle"
    /\ "end" \in last.fired
    /\ \E i \in TaskIds : FailedAtEnd(i)
    /\ now > 0

\* Virtual time with an idle timeout and no end of time, and a clock that
\* no timed wait has moved past the idle deadline.
IdleBounded ==
    /\ enabled /\ ~IsNone(idle_timeout) /\ IsNone(end)
    /\ IsNone(idle_end) \/ now <= Get(idle_end)

\* The idling begins: operation i waits forever and no idle cycle has run.
IdlingBegins(i) ==
    IdleBounded /\ IsNone(idle_end) /\ WaitsForever(i)

\* A cycle that keeps the idle deadline of the first idle cycle: the time
\* of that cycle plus the idle timeout.
KeepsDeadline ==
    idle_end' = IF IsNone(idle_end) THEN Some(now + Get(idle_timeout))
                ELSE idle_end

\* A cycle that fails an operation with IdleTimeoutError does so when the
\* time has come to the idle deadline, not before it.
FailsAtDeadline ==
    \A i \in TaskIds :
        Fails(i, "IdleTimeoutError") => now' = Get(idle_end') /\ now <= now'

\* C6, as the spec states it: with an idle timeout T, no end of time, no
\* delegated work and nothing ever ready, an operation that waits forever
\* is failed with IdleTimeoutError in the cycle in which the time reaches
\* the time of the first idle cycle plus T, not earlier, whatever the idle
\* step is.
C6_IdleTimeout ==
    /\ [][IsCycle /\ IdleBounded /\ Alone /\ last'.branch = "idle"
            => KeepsDeadline /\ FailsAtDeadline]_vars
    /\ []Alone =>
          \A i \in TaskIds : IdlingBegins(i) ~> (tasks[i] = Done("IdleTimeoutError"))

\* The part of C6 that the loop keeps: the same, for an idle step that is
\* unset or of one tick at least (an idle step of no tick never moves the
\* clock to the deadline).
C6_IdleTimeoutStep ==
    /\ [][IsCycle /\ IdleBounded /\ Alone /\ last'.branch = "idle"
            => KeepsDeadline /\ FailsAtDeadline]_vars
    /\ []Alone =>
          \A i \in TaskIds :
              (IdlingBegins(i) /\ IdleStepMoves)
                  ~> (tasks[i] = Done("IdleTimeoutError"))

\* Idle steps have moved the clock to the idle deadline, where the idle
\* timeout failed the waiting operation.
C6_Witness ==
    /\ enabled /\ IsNone(end) /\ IdleStepMoves /\ sync_futures = 0
    /\ ~IsNone(idle_timeout) /\ Get(idle_timeout) > 0
    /\ last.op = "cycle"
    /\ last.fired = {"idle"}
    /\ ~IsNone(idle_end) /\ now = Get(idle_end)
    /\ \E i \in TaskIds : tasks[i] = Done("IdleTimeoutError")

\* A step that is a setup_looptime() call with a start.
IsSetupAt == last'.op = "setup" /\ ~IsNone(last'.start)

\* The start that the setup_looptime() call of the step is given.
NewStart == Get(last'.start)

\* C8, as the spec states it: in a sequence of setup_looptime() calls with
\* non-decreasing starts, whatever the other options, the time after each
\* call is not less than before it and no call warns or raises TimeWarning.
C8_Forward ==
    [][(last.op \in {"init", "setup"} /\ ~IsNone(last.start) /\ IsSetupAt)
          => (Get(last.start) <= NewStart
                => Time' >= Time /\ last'.warned = 0 /\ last'.raised = "")]_vars

\* C9, as the spec states it: where TimeWarning is not an error,
\* setup_looptime(start=t) with t less than the time warns once and the
\* time is t afterwards, also for t = 0; stated for the starts that are a
\* whole number of ticks, which no rounding changes.
C9_Backward ==
    [][IsSetupAt /\ ~last'.strict /\ NewStart < Time
       /\ NewStart = Get(Int2Time(resolution_reciprocal',
                                  Time2Int(resolution_reciprocal', last'.start)))
          => last'.warned = 1 /\ Time' = NewStart]_vars

\* C10: where TimeWarning is an error, setup_looptime(start=t) with t less
\* than the time raises it and leaves the loop as it was: the time, the end
\* of time, the resolution, the idle settings, the idle deadline, the
\* throttle counters, the enabled flag, and the tasks.
C10_Rejected ==
    [][IsSetupAt /\ last'.strict /\ NewStart < Time
          => /\ last'.raised = "TimeWarning"
             /\ UNCHANGED <<clock, scopes, tasks>>]_vars

\* C10's case: a call was rejected on a loop that idles with an idle
\* deadline set and a task waiting.
C10_Witness ==
    /\ last.op = "setup"
    /\ last.strict
    /\ last.raised = "TimeWarning"
    /\ ~IsNone(idle_end)
    /\ \E i \in TaskIds : tasks[i].pc = "blocked"

\* A step that is a setup_looptime() call with no start, which is never
\* rejected.
IsSetupNoStart == last'.op = "setup" /\ IsNone(last'.start)

Overridden(l, old) ==
    IF IsNone(l.override) THEN old ELSE Get(l.override)

\* C12: after the first setup_looptime() the enabled flag is the override,
\* true without one; after every later call that returns it is the override
\* if one was given and else the value before the call, so that no call
\* without an override flips the flag.
C12_Enabled ==
    /\ [](last.op = "init" => enabled = Overridden(last, TRUE))
    /\ [][last'.op = "setup" /\ last'.raised = ""
             => enabled' = Overridden(last', enabled)]_vars

\* C12's case: a call without an override, with a start that moves the
\* time, has left a disabled loop disabled.
C12_Witness ==
    /\ last.op = "setup"
    /\ last.raised = ""
    /\ IsNone(last.override)
    /\ ~IsNone(last.start)
    /\ ~enabled

\* C13: after any number of setup_looptime() calls the selector's select is
\* the replacement that the first call installed and the original that the
\* loop holds is the host's own select: never the replacement itself, and
\* never absent.
C13_PatchedOnce ==
    /\ selector.select = "replaced"
    /\ selector.original = Some("host")

\* C13's case: a repeated setup_looptime() call has returned.
C13_Witness ==
    /\ last.op = "setup"
    /\ last.raised = ""
    /\ selector.select = "replaced"
    /\ now > 0

\* C14: a looptime_enabled() scope that is entered sets the flag to true,
\* nothing but a setup_looptime() call changes the flag while a scope is
\* open, and leaving the scope, on whatever path, sets the flag to the
\* value it had just before the entry, which is false.
C14_Scoped ==
    [][/\ last'.op = "enter" /\ last'.raised = ""
            => enabled' /\ scopes' = Append(scopes, enabled)
       /\ last'.op = "exit"
            => enabled' = scopes[Len(scopes)] /\ ~enabled'
       /\ scopes # << >> /\ last'.op \notin {"setup", "enter", "exit"}
            => enabled' = enabled]_vars

\* C14's case: a scope in which the clock was moved has been left, and the
\* loop is disabled as before it.
C14_Witness ==
    /\ last.op = "exit"
    /\ scopes = << >>
    /\ ~enabled
    /\ now > 0

\* C15: entering a looptime_enabled() scope on an enabled loop raises
\* RuntimeError and changes nothing: the flag stays true, no scope is
\* opened, and a scope that is open around the attempt still sets the flag
\* back to false when it is left.
C15_Reentry ==
    [][/\ last'.op = "enter" /\ enabled
            => /\ last'.raised = "RuntimeError"
               /\ enabled'
               /\ UNCHANGED <<clock, scopes, tasks>>
       /\ last.op = "enter" /\ last.raised = "RuntimeError" /\ last'.op = "exit"
            => /\ ~enabled'
               /\ scopes' = SubSeq(scopes, 1, Len(scopes) - 1)]_vars

\* C15's case: an attempt inside an open scope was refused.
C15_Witness ==
    /\ last.op = "enter"
    /\ last.raised = "RuntimeError"
    /\ scopes # << >>
    /\ enabled

\* C16: a cycle whose immediate poll finds i/o ready returns with the clock
\* where it was, without a real wait and without enforcing anything,
\* whatever the enabled flag, the timeout, the executor futures, the
\* throttle counters, the end of time and the idle deadline are.
C16_ReadyFirst ==
    [][IsCycle /\ last'.branch = "ready"
          => /\ now' = now
             /\ ~last'.waited
             /\ last'.fired = {}
             /\ last'.raised = ""]_vars

\* C16's case: i/o was ready in a cycle of a loop at its end of time with
\* an operation waiting and an executor future pending.
C16_Witness ==
    /\ last.op = "cycle"
    /\ last.branch = "ready"
    /\ ~IsNone(end) /\ now >= Get(end)
    /\ sync_futures > 0
    /\ \E i \in TaskIds : tasks[i].pc = "blocked"

\* A step that is a cycle of a disabled loop whose immediate poll found
\* nothing.
IsDisabledCycle == IsCycle /\ last'.branch = "disabled"

\* The quanta that a wait for the timeout may measure when i/o ends it.
Elapsed == IF IsNone(HostTimeout) THEN 0 .. Q ELSE 0 .. Get(HostTimeout)

\* C17, as the spec states it: a cycle of a disabled loop whose immediate
\* poll found nothing waits once for the timeout, and a finite timeout that
\* passes with nothing ready advances the time by the timeout exactly.
C17_DisabledExact ==
    [][IsDisabledCycle /\ ~last'.ready /\ ~IsNone(HostTimeout)
          => Time' = Time + Get(HostTimeout)]_vars

\* C17, amended: the clock advances by the timeout rounded to whole ticks
\* when the timeout passes with nothing ready, by the measured time rounded
\* to whole ticks when i/o ends the wait or the timeout is unbounded; the
\* wait is real unless the timeout is zero.
C17_DisabledRounded ==
    [][IsDisabledCycle
          => /\ ~last'.ready /\ ~IsNone(HostTimeout)
                 => now' = now + Get(Time2Int(resolution_reciprocal, HostTimeout))
             /\ last'.ready \/ IsNone(HostTimeout)
                 => \E e \in Elapsed :
                        now' = now + Get(Time2Int(resolution_reciprocal, Some(e)))
             /\ last'.waited = (HostTimeout # Some(0))
             /\ last'.fired = {}]_vars

\* C17's case: a disabled loop has waited for a timer in real time, and the
\* clock has come to the timer.
C17_Witness ==
    /\ last.op = "cycle"
    /\ last.branch = "disabled"
    /\ last.waited /\ ~last.ready
    /\ \E i \in TaskIds : /\ tasks[i].pc = "woken"
                           /\ tasks[i].when = Some(Time)
                           /\ Time > 0

\* The exception of the enforcement loops that a cycle entered: the loop
\* of the idle timeout is the later one.
Injected(fired) ==
    IF fired = {"end"} THEN {"LoopTimeoutError"}
    ELSE IF fired = {"idle"} THEN {"IdleTimeoutError"}
    ELSE {"LoopTimeoutError", "IdleTimeoutError"}

\* C18, as the spec states it: a cycle in which an enforcement fires
\* returns, and every operation that was outstanding has the timeout error
\* of that enforcement as the outcome of its wait or is cancelled, an
\* operation that waits for an outcome that is set already among them.
C18_AllFailed ==
    [][IsCycle /\ last'.fired # {}
          => /\ last'.raised = ""
             /\ \A i \in TaskIds :
                    Outstanding(tasks[i])
                        => tasks'[i].res \in Injected(last'.fired)
                                              \cup {"CancelledError"}]_vars

\* The end of time was reached and enforced, and the loop is enabled with
\* its clock at the end.
AtEnforcedEnd ==
    /\ end_fired # "no"
    /\ enabled
    /\ ~IsNone(end) /\ now = Get(end)

\* C19: once the end of time was reached and enforced, with the loop
\* enabled and nothing ever ready, no cycle moves the clock from the end, no
\* operation that waits there (for a delay, however short, or forever) is
\* resumed normally, and every such operation that runs alone is failed
\* with LoopTimeoutError.
C19_FailedAgain ==
    /\ [][AtEnforcedEnd /\ IsCycle
             => /\ now' = now
                /\ \A i \in TaskIds :
                       tasks[i].pc = "blocked" => tasks'[i].res # "ok"]_vars
    /\ []Alone =>
          \A i \in TaskIds :
              (AtEnforcedEnd /\ tasks[i].pc = "blocked")
                  ~> (tasks[i] = Done("LoopTimeoutError"))

\* C19's case: at the end of time, enforced before, an idle cycle has
\* failed an operation that began to wait afterwards.
C19_Witness ==
    /\ end_fired = "again"
    /\ enabled
    /\ now = Get(end)
    /\ last.op = "cycle"
    /\ last.branch = "idle"
    /\ last.fired = {"end"}
    /\ \E i \in TaskIds : tasks[i] = Done("LoopTimeoutError")

\* An operation that needs no time: a zero-length delay before or after its
\* bare yield.
ZeroTime(t) ==
    \/ t.pc = "new" /\ t.delay = Some(0)
    \/ t.pc = "yield"

\* C20: once the end of time was reached and enforced, no cycle fails or
\* cancels an operation that needs no time.
C20_ZeroTimeCompletes ==
    [][end_fired # "no" /\ IsCycle
         => \A i \in TaskIds :
                ZeroTime(tasks[i]) => /\ ~tasks'[i].cancel
                                      /\ tasks'[i].res \in {"", "ok"}]_vars

\* The part of C20 that the loop keeps: with no executor job pending, no
\* cycle after the enforced end fails or cancels an operation that needs
\* no time, and the clock stays.
C20_ZeroTimeNoExecutor ==
    [][end_fired # "no" /\ IsCycle /\ sync_futures = 0 /\ enabled
         => \A i \in TaskIds :
                ZeroTime(tasks[i]) => /\ ~tasks'[i].cancel
                                      /\ tasks'[i].res \in {"", "ok"}
                                      /\ now' = now]_vars

\* Operation i waits for its own timer, which is the nearest one, and the
\* way to it is in ticks exactly the way to the end of time.
DeadlineAtEnd(i) ==
    /\ tasks[i].pc = "blocked"
    /\ ~IsNone(tasks[i].when)
    /\ ~IsNone(end)
    /\ HostTimeout = Some(Get(tasks[i].when) - Time)
    /\ Get(Time2Int(resolution_reciprocal, HostTimeout)) = Get(end) - now

\* C21: a jump whose step to the operation's own deadline equals the
\* remaining time to the end brings the clock to the end, enters the
\* end-of-time enforcement and sets LoopTimeoutError as the outcome of the
\* operation's wait, never its normal result.
C21_DeadlineAtEnd ==
    [][IsCycle /\ last'.branch = "jump"
         => \A i \in TaskIds :
                DeadlineAtEnd(i) => /\ now' = Get(end)
                                    /\ "end" \in last'.fired
                                    /\ tasks'[i].pc \in {"woken", "done"}
                                    /\ tasks'[i].res = "LoopTimeoutError"]_vars

\* C21's case: from time 0 a delay of one second met the end at one second
\* and was failed there.
C21_Witness ==
    /\ last.op = "cycle"
    /\ last.branch = "jump"
    /\ last.timeout = Some(Q)
    /\ end = Some(resolution_reciprocal)
    /\ now = Get(end)
    /\ \E i \in TaskIds : tasks[i] = Done("LoopTimeoutError")

\* C22, as the spec states it: whatever calls went before, the class
\* returned for an original class without the mixin and a prefix is named
\* prefix + the original's name and derives from the original and from the
\* mixin.
C22_Named ==
    made.op = "make" /\ ~HasMixin(Get(made.cls))
        => /\ Get(made.result).name = Get(made.prefix) \o Get(made.cls).name
           /\ Get(made.cls).name \in Get(made.result).mro
           /\ LoopTimeEventLoop \in Get(made.result).mro

\* The part of C22 that the factory keeps: the class returned derives from
\* the original and from the mixin and is named with the prefix of the call
\* that put it into the cache, and a class with the mixin is returned as is.
C22_Derived ==
    made.op = "make"
        => IF HasMixin(Get(made.cls)) THEN made.result = made.cls
           ELSE /\ Get(made.cls).mro \subseteq Get(made.result).mro
                /\ LoopTimeEventLoop \in Get(made.result).mro
                /\ \E prefix \in Prefixes :
                       Get(made.result).name = prefix \o Get(made.cls).name
                /\ class_cache[Get(made.cls).name] = Get(made.result)

\* The test function is running under --no-looptime.
RunsForcedOff == item.phase = "running" /\ item.flag = Some(FALSE)

\* C23, as the spec states it: with --no-looptime the test runs with its
\* running loop not enabled, whatever markers it has.
C23_ForcedOff ==
    RunsForcedOff => ~enabled

\* The part of C23 that the plugin keeps: with --no-looptime the running
\* loop of a test is enabled only by a positional true value of a marker for
\* the running loop, the closest one with a positional value.
C23_ForcedOffUnlessTrue ==
    RunsForcedOff /\ enabled
        => \E k \in 1 .. Len(item.markers) :
              /\ item.markers[k].loop_scope = None
              /\ item.markers[k].args = Some(TRUE)
              /\ \A j \in 1 .. k - 1 :
                     item.markers[j].loop_scope = None => IsNone(item.markers[j].args)

\* |a|.
Abs(a) == IF a < 0 THEN 0 - a ELSE a

\* C24, as the spec states it: whatever the resolution r and the time x,
\* the time converted to ticks and back is within r/2 of x.
C24_RoundTrip ==
    converted.op = "convert"
        => /\ converted.raised = ""
           /\ 2 * Abs(Get(converted.seconds) - Get(converted.time))
                  <= Get(converted.resolution)

\* The part of C24 that the converter keeps: when the reciprocal of the
\* resolution does not round to zero, the time converted to ticks and back
\* is within half a tick of x, the tick being 1 / round(1 / r) seconds.
C24_HalfTick ==
    converted.op = "convert" /\ Reciprocal(Get(converted.resolution)) > 0
        => /\ converted.raised = ""
           /\ 2 * Reciprocal(Get(converted.resolution))
                 * Abs(Get(converted.seconds) - Get(converted.time)) <= Q

\* A cycle of the idle branch in which nothing was ready and whose step
\* brought the clock to the idle deadline or past it, while an operation
\* waits.
IdleReachesDeadline ==
    /\ IsCycle
    /\ last'.branch = "idle"
    /\ ~last'.ready
    /\ ~IsNone(idle_end')
    /\ now' >= Get(idle_end')
    /\ now' > now
    /\ \E i \in TaskIds : WaitsForever(i)

\* C25, as the spec states it: an idle cycle with nothing ready whose step
\* brings the clock to the idle deadline or past it enters the idle-timeout
\* enforcement in that cycle, with an end of time set or not.
C25_IdleEnforced ==
    [][IdleReachesDeadline => "idle" \in last'.fired]_vars

\* The part of C25 that the loop keeps: the same, when no end of time is
\* set.
C25_IdleEnforcedNoEnd ==
    [][IdleReachesDeadline /\ IsNone(end) => "idle" \in last'.fired]_vars

\* A cycle of one of the branches that call __sync.
IsSyncCycle == IsCycle /\ last'.branch \in {"executor", "idle", "jump"}

\* The deadline that the branch of the cycle passes to __sync: the idle
\* deadline in the idle branch, none in the others.
SyncDeadline == IF last'.branch = "idle" THEN IdleEnd ELSE None

\* The candidate step that the branch of the cycle passes to __sync.
SyncBound == IF last'.branch = "jump" THEN None ELSE idle_step

\* The timeout that the branch of the cycle passes to __sync.
SyncTimeout == IF last'.branch = "idle" THEN None ELSE HostTimeout

\* What __sync returns in the cycle.
Synced == Sync(SyncTimeout, SyncBound, SyncDeadline)

\* The deadline or the end of time is what binds the step of the cycle: the
\* step is the way to one of them.
Binding ==
    \/ ~IsNone(SyncDeadline) /\ Synced.step = Get(SyncDeadline) - now
    \/ ~IsNone(end) /\ Synced.step = Get(end) - now

\* C26, as the spec states it: the overtime flag of a cycle is true
\* exactly when the step that __sync computed is the way to the deadline it
\* was given or to the end of time, also when the deadline binds and an end
\* of time lies further away.
C26_Overtime ==
    [][IsSyncCycle => (last'.overtime <=> Binding)]_vars

\* The part of C26 that the synchroniser keeps: the overtime flag is true
\* exactly when the step is the way to the end of time, if there is one, and
\* else exactly when it is the way to the deadline, if there is one.
C26_OvertimeLast ==
    [][IsSyncCycle
         => (last'.overtime <=>
                IF ~IsNone(end) THEN Synced.step = Get(end) - now
                ELSE ~IsNone(SyncDeadline)
                     /\ Synced.step = Get(SyncDeadline) - now)]_vars

\* The bounds of the step that are present in the cycle: the candidate step,
\* the timeout in ticks, the way to the deadline and the way to the end.
StepBounds ==
    (IF IsNone(SyncBound) THEN {} ELSE {Get(SyncBound)})
        \cup (IF IsNone(SyncTimeout) THEN {}
              ELSE {Get(Time2Int(resolution_reciprocal, SyncTimeout))})
        \cup (IF IsNone(SyncDeadline) THEN {} ELSE {Get(SyncDeadline) - now})
        \cup (IF IsNone(end) THEN {} ELSE {Get(end) - now})

\* The least of the bounds that are present, 0 if none is.
LeastBound == IF StepBounds = {} THEN 0 ELSE SetMin(StepBounds)

\* C27: the step that __sync computes in a cycle is the least of the bounds
\* that are present, 0 if none is, and it is the step the clock makes: by it
\* when the cycle found nothing ready, by it or not at all when it did.
C27_LeastStep ==
    [][IsSyncCycle => /\ Synced.step = LeastBound
                      /\ ~last'.ready => now' = now + LeastBound
                      /\ now' \in {now, now + LeastBound}]_vars

\* C27's case: an idle cycle had an idle step, an idle deadline and an end of
\* time, and moved the clock by the least of the three, the way to the end.
C27_Witness ==
    /\ last.op = "cycle"
    /\ last.branch = "idle"
    /\ ~last.ready
    /\ ~IsNone(idle_step) /\ ~IsNone(idle_end) /\ ~IsNone(end)
    /\ now = Get(end)
    /\ now > 0
    /\ now < Get(idle_step)
    /\ now < Get(idle_end)

\* A cycle of one of the branches that poll twice.
IsSplitCycle == IsCycle /\ last'.branch \in {"executor", "idle"}

\* C28: in a cycle that polls twice the clock moves by the whole step that
\* __sync computed if the first poll found nothing, also when the second one
\* did, and stays where it is if the first poll found something.
C28_SplitAdvance ==
    [][IsSplitCycle => /\ last'.early => now' = now
                       /\ ~last'.early => now' = now + Synced.step
                       /\ last'.early => last'.ready]_vars

\* C28's case: only the second poll of an idle cycle found something, and
\* the clock has moved by the idle step, which nothing else bounded.
C28_Witness ==
    /\ last.op = "cycle"
    /\ last.branch = "idle"
    /\ last.ready /\ ~last.early
    /\ IsNone(end) /\ IsNone(idle_timeout)
    /\ ~IsNone(idle_step) /\ Get(idle_step) > 0
    /\ now >= Get(idle_step)

\* The last operation was a direct jump of the clock.
Jumped == last.op = "cycle" /\ last.branch = "jump"

\* C29: in a loop that runs enabled, a direct jump comes right after
\* noop_cycles cycles at least, one after another, each with a positive
\* timeout, nothing ready, no real wait and the clock unmoved; any other
\* cycle in between (a poll with timeout 0, ready i/o) starts the count anew.
C29_Throttled ==
    Jumped => last.run >= noop_cycles

\* C29's case: a jump that moved the clock after a full run of quiet
\* cycles.
C29_Witness ==
    /\ Jumped
    /\ noop_cycles = MaxNoop
    /\ last.run >= MaxNoop
    /\ ~last.quiet
    /\ now > 0

\* A step that is a direct jump of the clock.
IsJump == IsCycle /\ last'.branch = "jump"

\* The earliest deadline of the timers pending before the step.
Nearest == SetMin(Scheduled(tasks))

C31_NoopPaired ==
    /\ IsNone(noop_limit) <=> IsNone(noop_cycle)
    /\ ~IsNone(noop_limit) => /\ Get(noop_cycle) >= 0
                              /\ Get(noop_cycle) <= Get(noop_limit)

\* C31's case: a throttle run that has counted, after a poll that found the
\* counters set.
C31_Witness ==
    /\ last.op = "cycle"
    /\ last.branch = "poll"
    /\ noop_limit = Some(MaxNoop)
    /\ noop_cycle = Some(0)

\* C32: at the end of every cycle in which i/o was ready (in the immediate
\* poll, in the real wait of a disabled loop, or in either poll of a split
\* step), the idle deadline and both throttle counters are unset: the idle
\* countdown and the throttle run start anew in the cycles that follow.
C32_ReadyRestarts ==
    [][IsCycle /\ last'.ready =>
          /\ IsNone(idle_end')
          /\ IsNone(noop_limit')
          /\ IsNone(noop_cycle')]_vars

\* C32's case: an idle cycle of a loop with an idle timeout, which computes
\* the idle deadline, got i/o in the second poll of its split step, and the
\* deadline is unset after it.
C32_Witness ==
    /\ last.op = "cycle"
    /\ last.branch = "idle"
    /\ last.ready
    /\ ~last.early
    /\ ~IsNone(idle_timeout)
    /\ IsNone(idle_end)

\* The loop is enabled and its clock is at or after the end of time.
PastEnd ==
    enabled /\ ~IsNone(end) /\ now >= Get(end)

\* C33, as the spec states it: once now >= end, every cycle of the enabled
\* loop that begins with an operation waiting and finds no i/o ready enters
\* the end-of-time enforcement, so an operation that waits there is failed
\* by the very next cycle, with no throttle run before.
C33_EveryCycle ==
    [][IsCycle /\ PastEnd /\ (\E i \in TaskIds : tasks[i].pc = "blocked")
               /\ ~last'.ready
          => "end" \in last'.fired]_vars

\* The part of C33 that the loop keeps: at or after the end of time, every
\* cycle that synchronises the clock (a direct jump, an idle step, a step
\* with an executor pending) enters the end-of-time enforcement.
C33_EverySyncCycle ==
    [][IsCycle /\ PastEnd /\ last'.branch \in {"jump", "idle", "executor"}
               /\ ~last'.ready /\ now' >= Get(end)
          => "end" \in last'.fired]_vars

\* A cycle with nothing ready after which the clock is at or past both the
\* end of time and the idle deadline, with the end reached in this cycle or
\* before it, while an operation waits.
BothCrossed ==
    /\ IsSyncCycle
    /\ ~last'.ready
    /\ ~IsNone(end) /\ now' >= Get(end)
    /\ ~IsNone(idle_end') /\ now' >= Get(idle_end')
    /\ \E i \in TaskIds : tasks[i].pc = "blocked"

\* C34, as the spec states it: a cycle in which the end of time and the
\* idle deadline are both crossed enters both enforcement loops, both run
\* over all the outstanding operations, and the selector call returns
\* with no exception.
C34_BothPasses ==
    [][BothCrossed => /\ last'.fired = {"end", "idle"}
                      /\ last'.raised = ""]_vars

\* The part of C34 that the loop keeps: such a cycle enters the end-of-time
\* loop, which fails the waiting operations with LoopTimeoutError, and the
\* idle-timeout loop after it.
C34_BothEntered ==
    [][BothCrossed =>
          /\ last'.fired = {"end", "idle"}
          /\ \A i \in TaskIds :
                 tasks[i].pc = "blocked" => tasks'[i].res = "LoopTimeoutError"]_vars

\* C35, as the spec states it: when the last open scope of one
\* looptime.enabled object exits, the flag of the loop is what it was just
\* before the first of these scopes was entered, also when a nested entry
\* of the object failed in between.
C35_Restored ==
    [][last'.op = "enabler_exit" /\ enabler'.open = << >>
          => enabled' = enabler.open[1]]_vars

\* The part of C35 that the loop keeps: the same, when every manager that
\* the object left behind is finalized by then.
C35_RestoredCollected ==
    [][last'.op = "enabler_exit" /\ enabler'.open = << >> /\ enabler.orphans = 0
          => enabled' = enabler.open[1]]_vars

\* C36: a cycle of an enabled loop that begins with the clock at or before
\* the end of time ends with the clock at or before it, whatever the branch
\* (a step with an executor pending, an idle step, a direct jump), the
\* timeout, the idle step and the idle deadline.
C36_Clamped ==
    [][IsCycle /\ enabled /\ ~IsNone(end) /\ now <= Get(end)
          => now' <= Get(end)]_vars

\* C36's case: a direct jump with a timeout longer than the end of time
\* itself has moved the clock and stopped it at the end, where the waiting
\* operation failed.
C36_Witness ==
    /\ Jumped
    /\ enabled
    /\ ~IsNone(end) /\ now = Get(end)
    /\ ~last.quiet
    /\ Get(last.timeout) > EndTime
    /\ \E i \in TaskIds : tasks[i] = Done("LoopTimeoutError")

\* C37, as the spec states it: a setup_looptime() call keeps the registry
\* of the executor futures: the futures registered and not done before the
\* call are registered after it, so that the next cycles still take the
\* branch of the pending executors.
C37_KeepsRegistry ==
    [][last'.op = "setup" => sync_futures' = sync_futures]_vars

\* What the call does instead: unless it is rejected, it leaves no future
\* registered, and the next cycle of the enabled loop never takes the
\* branch of the pending executors.
C37_EmptiesRegistry ==
    [][/\ last'.op = "setup" /\ last'.raised = ""
            => sync_futures' = 0
       /\ last.op = "setup" /\ last.raised = "" /\ IsCycle
            => last'.branch # "executor"]_vars

\* A step that is a setup_looptime() call that was not rejected.
IsSetupDone == last'.op = "setup" /\ last'.raised = ""

\* The options that the setup_looptime() call of the step was given.
Given == last'.given

\* C38: a setup_looptime() call sets every option that it is not given to
\* the default, whatever was configured before: no end of time, no idle
\* step, no idle timeout, the default resolution and throttle length; the
\* idle deadline and the throttle counters are unset; of the earlier
\* configuration only the enabled flag (with no _enabled given) and the
\* time (with no start given, to the nearest tick) remain.
C38_Defaults ==
    [][IsSetupDone =>
          /\ "end" \notin Given => IsNone(end')
          /\ "idle_step" \notin Given => IsNone(idle_step')
          /\ "idle_timeout" \notin Given => IsNone(idle_timeout')
          /\ "resolution" \notin Given
                => resolution_reciprocal' = Reciprocal(Defaults.resolution)
          /\ "noop_cycles" \notin Given
                => noop_cycles' = Defaults.noop_cycles
          /\ IsNone(idle_end') /\ IsNone(noop_limit') /\ IsNone(noop_cycle')
          /\ "enabled" \notin Given => enabled' = enabled
          /\ "start" \notin Given
                => 2 * resolution_reciprocal' * Abs(Time' - Time) <= Q]_vars

\* C38's case: a loop that had an end of time, at which an operation
\* failed, was set up again with no option given and has no end of time.
C38_Witness ==
    /\ last.op = "setup"
    /\ last.raised = ""
    /\ last.given = {}
    /\ IsNone(end)
    /\ now > 0
    /\ \E i \in TaskIds : tasks[i] = Done("LoopTimeoutError")

\* C39: a cycle of a disabled loop enters no enforcement and raises
\* nothing, fails no operation with a timeout error and cancels none, also
\* when its real wait takes the clock to the end of time, past it or past
\* the idle deadline; it computes no idle deadline and starts no throttle
\* run (it may only unset them, with i/o ready).
C39_DisabledQuiet ==
    [][IsCycle /\ ~enabled =>
          /\ last'.branch \in {"ready", "disabled"}
          /\ last'.fired = {}
          /\ last'.raised = ""
          /\ \A i \in TaskIds :
                 /\ tasks'[i].res \in {"LoopTimeoutError", "IdleTimeoutError"}
                      => tasks'[i].res = tasks[i].res
                 /\ tasks'[i].cancel => tasks[i].cancel
          /\ idle_end' \in {idle_end, None}
          /\ noop_limit' \in {noop_limit, None}
          /\ noop_cycle' \in {noop_cycle, None}]_vars

\* C39's case: the real wait of a disabled loop has taken the clock past
\* the end of time, found nothing ready, and the operation still waits.
C39_Witness ==
    /\ ~enabled
    /\ last.op = "cycle"
    /\ last.branch = "disabled"
    /\ last.waited
    /\ ~last.ready
    /\ ~IsNone(end) /\ now > Get(end)
    /\ \E i \in TaskIds : tasks[i].res = "ok" /\ tasks[i].pc = "woken"

\* A cycle of an enabled loop with an unfinished executor future registered.
ExecutorPending == IsCycle /\ enabled /\ sync_futures > 0

\* C40: while an executor future is unfinished, a cycle computes no idle
\* deadline, leaves no throttle run active, does not start the idle-timeout
\* enforcement and fails no operation with IdleTimeoutError.
C40_NoIdleWhilePending ==
    [][ExecutorPending =>
          /\ idle_end' \in {idle_end, None}
          /\ noop_limit' = None /\ noop_cycle' = None
          /\ "idle" \notin last'.fired
          /\ \A i \in TaskIds : ~Fails(i, "IdleTimeoutError")]_vars

\* The same for the loops that have no end boundary.
C40_NoIdleWhilePendingNoEnd ==
    [][ExecutorPending /\ IsNone(end) =>
          /\ idle_end' \in {idle_end, None}
          /\ noop_limit' = None /\ noop_cycle' = None
          /\ "idle" \notin last'.fired
          /\ \A i \in TaskIds : ~Fails(i, "IdleTimeoutError")]_vars

=============================================================================
